---- MODULE Spec2Model ----
(***************************************************************************)
(* Model of extract-subtitles.py: the pipeline driver main(), the three    *)
(* subtitle builders, the diacritizer adapter and the SRT time formatter.  *)
(*                                                                         *)
(* Times.  Source times (Whisper's start/end, the delay) are decimal       *)
(* literals with at most three decimals and are held as integers in        *)
(* milliseconds.  Values produced by round(x, 2) are held as integers in   *)
(* centiseconds.  Python computes on IEEE doubles: where the exact value   *)
(* handed to round(x, 2) lies exactly half way between two centiseconds    *)
(* the double lies a rounding error to one side or the other, so round     *)
(* returns either neighbour (RoundChoices); everywhere else the result is  *)
(* the nearest centisecond.  format_srt_time is modelled on the double     *)
(* nearest to its decimal argument, bit-exactly (FloatMillis).             *)
(*                                                                         *)
(* Text.  A text is a sequence of one-character strings.                   *)
(***************************************************************************)
EXTENDS Integers, Sequences, FiniteSets, TLC

VARIABLES
    \* ---- main() and the __main__ guard
    pc,            \* position of the run inside main() / the guard
    videoExists,   \* os.path.exists(VIDEO_PATH)
    audioExists,   \* temp_audio.wav is on disk
    outputs,       \* state of the three output files
    calls,         \* the functions main() has invoked so far
    pending,       \* exception in flight out of the try body
    messages,      \* the distinct messages printed so far
    exitStatus,    \* process exit status ("running" until it exits)
    interrupted,   \* a KeyboardInterrupt has been delivered
    removeFailed,  \* the places where os.remove of the audio file failed
    raisedIn,      \* the phases of the try body that raised an Exception
    cleanupRan,    \* the finally block has run
    \* ---- the builders (shared by main() and by the builder specification)
    result,        \* the transcription result: a sequence of Segments
    subtitles,     \* the Subtitle list a builder returned
    harakatLog,    \* outcome of the diacritization engine, per subtitle
    delay,         \* the delay argument, in milliseconds
    maxWords,      \* the max_words argument
    bpc,           \* which builder has run ("ready" before)
    bRaised,       \* exception a builder raised
    \* ---- format_srt_time
    fmtIn,         \* the argument, a decimal literal, in milliseconds
    fmtOut,        \* the returned string, as a sequence of characters
    fmtDone

mainVars  == <<pc, videoExists, audioExists, outputs, calls, pending, messages,
               exitStatus, interrupted, removeFailed, raisedIn, cleanupRan>>
buildVars == <<result, subtitles, harakatLog, delay, maxWords, bpc, bRaised>>
fmtVars   == <<fmtIn, fmtOut, fmtDone>>
vars      == <<mainVars, buildVars, fmtVars>>

-----------------------------------------------------------------------------
(* Program constants *)

SUBTITLE_DELAY == 1200

MAX_WORDS_PER_SUBTITLE == 2

WORD_LEVEL == TRUE

ADD_HARAKAT == TRUE

(* Bounds of the model *)

MaxSegments == 2

MaxHours == 1

-----------------------------------------------------------------------------
(* Small helpers *)

RECURSIVE Pow2(_)
Pow2(n) == IF n <= 0 THEN 1 ELSE 2 * Pow2(n - 1)

RECURSIVE PowMod2(_, _)
\* 2^n modulo k, without leaving 32 bits
PowMod2(n, k) == IF n = 0 THEN 1 % k ELSE (2 * PowMod2(n - 1, k)) % k

RECURSIVE FloorLog2(_)
\* floor(log2 n) for n >= 1
FloorLog2(n) == IF n < 2 THEN 0 ELSE 1 + FloorLog2(n \div 2)

RECURSIVE Flatten(_)
Flatten(ss) == IF ss = <<>> THEN <<>> ELSE Head(ss) \o Flatten(Tail(ss))

RECURSIVE SeqProduct(_)
\* all sequences that pick one element from each set of the sequence ss
SeqProduct(ss) ==
    IF ss = <<>> THEN {<<>>}
    ELSE {<<h>> \o t : h \in Head(ss), t \in SeqProduct(Tail(ss))}

RECURSIVE SeqsUpTo(_, _)
\* all sequences over S of length at most n
SeqsUpTo(S, n) ==
    IF n = 0 THEN {<<>>}
    ELSE LET shorter == SeqsUpTo(S, n - 1)
         IN  shorter \cup {Append(s, x) : s \in shorter, x \in S}

-----------------------------------------------------------------------------
(* round(x, 2) on a double *)

\* round(num/den, 2) for the value num/den milliseconds (den >= 1, num >= 0):
\* the centiseconds round() can return.  Off a tie that is the nearest one; on
\* an exact decimal tie the double is a rounding error away from it on either
\* side (or is the tie itself, rounded half to even), so both neighbours.
RoundChoices(num, den) ==
    LET unit == 10 * den
        q == num \div unit
        r == num % unit
    IN  IF 2 * r < unit THEN {q}
        ELSE IF 2 * r > unit THEN {q + 1}
        ELSE {q, q + 1}

-----------------------------------------------------------------------------
(* format_srt_time *)

DigitChars == <<"0", "1", "2", "3", "4", "5", "6", "7", "8", "9">>

RECURSIVE Decimal(_)
\* the decimal digits of n >= 0
Decimal(n) ==
    IF n < 10 THEN <<DigitChars[n + 1]>>
    ELSE Append(Decimal(n \div 10), DigitChars[(n % 10) + 1])

RECURSIVE ZeroPad(_, _)
\* the format spec 0<w>d: at least w characters, padded with zeros on the left
ZeroPad(digits, w) ==
    IF Len(digits) >= w THEN digits ELSE ZeroPad(<<"0">> \o digits, w)

\* Exponent of the double nearest to (whole + ms/1000) seconds, whole + ms > 0.
FloatExponent(whole, ms) ==
    IF whole >= 1 THEN FloorLog2(whole)
    ELSE -(CHOOSE j \in 1..10 : ms * Pow2(j) >= 1000 /\ ms * Pow2(j - 1) < 1000)

\* int((seconds % 1) * 1000) for the double nearest to whole + ms/1000.
\* With F fraction bits below the binary point the double's fraction is
\* g / 2^F, g = round(ms * 2^F / 1000); seconds % 1 is exact; the product with
\* 1000 is ms - rem/2^F when g was rounded down by rem/1000, and is then
\* rounded to a double again: back up to ms only if it is within half an ulp.
FloatMillis(whole, ms) ==
    IF ms = 0 THEN 0
    ELSE LET e    == FloatExponent(whole, ms)
             rem  == (ms * PowMod2(52 - e, 1000)) % 1000
             ep   == IF ms = 1 THEN -1 ELSE FloorLog2(ms - 1)
             slack == ep - e - 1
         IN  IF rem = 0 \/ rem >= 500 THEN ms
             ELSE IF slack >= 0 /\ rem <= Pow2(slack) THEN ms
             ELSE ms - 1

\* format_srt_time(seconds), seconds the double nearest to t/1000
format_srt_time(t) ==
    LET whole   == t \div 1000
        hours   == whole \div 3600
        minutes == (whole % 3600) \div 60
        secs    == whole % 60
        millis  == FloatMillis(whole, t % 1000)
    IN  ZeroPad(Decimal(hours), 2) \o <<":">> \o ZeroPad(Decimal(minutes), 2)
        \o <<":">> \o ZeroPad(Decimal(secs), 2) \o <<",">>
        \o ZeroPad(Decimal(millis), 3)

-----------------------------------------------------------------------------
(* Text: str.strip, str.split, ' '.join *)

RECURSIVE LStrip(_)
LStrip(t) == IF t # <<>> /\ Head(t) = " " THEN LStrip(Tail(t)) ELSE t

RECURSIVE RStrip(_)
RStrip(t) ==
    IF t # <<>> /\ t[Len(t)] = " " THEN RStrip(SubSeq(t, 1, Len(t) - 1)) ELSE t

\* text.strip()
Strip(t) == RStrip(LStrip(t))

RECURSIVE WordLen(_)
\* length of the run of non-blank characters that t starts with
WordLen(t) == IF t = <<>> \/ Head(t) = " " THEN 0 ELSE 1 + WordLen(Tail(t))

RECURSIVE Split(_)
\* text.split(): the maximal runs of non-blank characters
Split(t) ==
    IF t = <<>> THEN <<>>
    ELSE IF Head(t) = " " THEN Split(Tail(t))
    ELSE <<SubSeq(t, 1, WordLen(t))>> \o Split(SubSeq(t, WordLen(t) + 1, Len(t)))

RECURSIVE Join(_)
\* ' '.join(words)
Join(words) ==
    IF words = <<>> THEN <<>>
    ELSE IF Len(words) = 1 THEN Head(words)
    ELSE Head(words) \o <<" ">> \o Join(Tail(words))

RECURSIVE Chunks(_, _)
\* [' '.join(words[i:i+max_words]) for i in range(0, len(words), max_words)]
Chunks(words, max_words) ==
    IF words = <<>> THEN <<>>
    ELSE IF Len(words) <= max_words THEN <<Join(words)>>
    ELSE <<Join(SubSeq(words, 1, max_words))>>
         \o Chunks(SubSeq(words, max_words + 1, Len(words)), max_words)

split_text_into_phrases(text, max_words) == Chunks(Split(Strip(text)), max_words)

-----------------------------------------------------------------------------
(* The diacritizer adapter *)

\* What a call of the diacritization engine can do: return the marked text,
\* fail with an exception, or be cut by the user's interrupt.
EngineOutcomes == {"ok", "Exception", "KeyboardInterrupt"}

RECURSIVE Tashkeel(_)
\* TashkeelClass().tashkeel(text), an external engine: every letter gets a mark
Tashkeel(text) ==
    IF text = <<>> THEN <<>>
    ELSE IF Head(text) = " " THEN <<" ">> \o Tashkeel(Tail(text))
    ELSE <<Head(text), "'">> \o Tashkeel(Tail(text))

\* A variant of the adapter without the catch-all: a failure of the engine
\* leaves the adapter.
AddHarakatPropagates(text, engine) ==
    IF ~ADD_HARAKAT THEN [value |-> text, raised |-> "none"]
    ELSE IF engine = "ok" THEN [value |-> Tashkeel(text), raised |-> "none"]
    ELSE [value |-> text, raised |-> engine]

\* add_arabic_harakat(text) when the engine call ends as `engine`:
\* the value returned and the exception that leaves the adapter.
add_arabic_harakat(text, engine) ==
    IF ~ADD_HARAKAT THEN [value |-> text, raised |-> "none"]
    ELSE IF engine = "ok" THEN [value |-> Tashkeel(text), raised |-> "none"]
    ELSE [value |-> text, raised |-> "none"]      \* bare except: return text

-----------------------------------------------------------------------------
(* The builders *)

\* A variant that takes the duration from the rounded, offset start and end.
SubtitleChoicesOffsetDuration(text, sNum, eNum, dNum, den) ==
    {[text |-> text, start |-> a, end |-> b, duration |-> b - a] :
        a \in RoundChoices(sNum, den),
        b \in RoundChoices(eNum, den)}

\* The Subtitle records one append can produce: texts as given, the three
\* numbers round(., 2) of sNum/den, eNum/den and dNum/den milliseconds.
SubtitleChoices(text, sNum, eNum, dNum, den) ==
    {[text |-> text, start |-> a, end |-> b, duration |-> d] :
        a \in RoundChoices(sNum, den),
        b \in RoundChoices(eNum, den),
        d \in RoundChoices(dNum, den)}

\* A variant that only tests for the key: 'words' in segment
HasWordsKey(segment) == segment.hasWords

\* 'words' in segment and segment['words']
HasWordTimestamps(segment) == segment.hasWords /\ segment.words # <<>>

\* The spans the word-level builder turns into Subtitles, for one Segment
WordLevelUnits(segment) ==
    IF HasWordTimestamps(segment)
    THEN [i \in 1..Len(segment.words) |->
            [text  |-> segment.words[i].word,
             start |-> segment.words[i].start,
             end   |-> segment.words[i].end]]
    ELSE <<[text |-> segment.text, start |-> segment.start, end |-> segment.end]>>

AllWordLevelUnits(res) == Flatten([i \in 1..Len(res) |-> WordLevelUnits(res[i])])

\* First exception among the adapter calls, "none" when there is none
FirstRaised(hs) ==
    IF \E i \in 1..Len(hs) : hs[i].raised # "none"
    THEN hs[CHOOSE i \in 1..Len(hs) :
                /\ hs[i].raised # "none"
                /\ \A j \in 1..(i - 1) : hs[j].raised = "none"].raised
    ELSE "none"

\* process_word_level_subtitles(result, delay); engines[i] is how the i-th
\* call of the diacritization engine ends.  subs: the lists it can return.
process_word_level_subtitles(res, dly, engines) ==
    LET units == AllWordLevelUnits(res)
        hs    == [i \in 1..Len(units) |->
                    IF ADD_HARAKAT
                    THEN add_arabic_harakat(Strip(units[i].text), engines[i])
                    ELSE [value |-> Strip(units[i].text), raised |-> "none"]]
    IN  [raised |-> FirstRaised(hs),
         subs   |-> SeqProduct([i \in 1..Len(units) |->
                        SubtitleChoices(hs[i].value,
                                        units[i].start + dly,
                                        units[i].end + dly,
                                        units[i].end - units[i].start, 1)])]

\* The Subtitles of one Segment under phrase grouping, k = len(phrases) >= 1:
\* time_per_phrase = duration / k, start = segment.start + i * time_per_phrase,
\* end = start + time_per_phrase; all as fractions over k.  time_per_phrase is
\* one double, rounded the same way for every group; the first group's end,
\* (segment.start + 0 * t) + t, and the second group's start,
\* segment.start + 1 * t, are the same double too.  Later boundaries are
\* reached by two different sums, whose doubles can differ.
PhraseSegmentChoices(segment, dly, max_words) ==
    LET phrases == split_text_into_phrases(segment.text, max_words)
        k       == Len(phrases)
        dur     == segment.end - segment.start
        free    == SeqProduct([j \in 1..k |->
                      SubtitleChoices(phrases[j],
                                      segment.start * k + (j - 1) * dur + dly * k,
                                      segment.start * k + j * dur + dly * k,
                                      dur, k)])
    IN  {subs \in free :
            /\ \A j \in 1..k : subs[j].duration = subs[1].duration
            /\ k >= 2 => subs[2].start = subs[1].end}

RECURSIVE PhraseAll(_, _, _)
PhraseAll(res, dly, max_words) ==
    IF res = <<>> THEN {<<>>}
    ELSE {h \o t : h \in PhraseSegmentChoices(Head(res), dly, max_words),
                   t \in PhraseAll(Tail(res), dly, max_words)}

\* process_phrase_level_subtitles(result, delay, max_words):
\* duration / len(phrases) raises ZeroDivisionError on the first Segment whose
\* text has no word, and the function returns nothing.
process_phrase_level_subtitles(res, dly, max_words) ==
    IF \E i \in 1..Len(res) :
            Len(split_text_into_phrases(res[i].text, max_words)) = 0
    THEN [raised |-> "ZeroDivisionError", subs |-> {<<>>}]
    ELSE [raised |-> "none", subs |-> PhraseAll(res, dly, max_words)]

\* process_full_segment_subtitles(result, delay)
process_full_segment_subtitles(res, dly) ==
    [raised |-> "none",
     subs   |-> SeqProduct([i \in 1..Len(res) |->
                    SubtitleChoices(Strip(res[i].text),
                                    res[i].start + dly,
                                    res[i].end + dly,
                                    res[i].end - res[i].start, 1)])]

-----------------------------------------------------------------------------
(* Inputs *)

Word(w, s, e) == [word |-> w, start |-> s, end |-> e]

Segment(s, e, text, hasWords, words) ==
    [start |-> s, end |-> e, text |-> text, hasWords |-> hasWords, words |-> words]

\* <<start, end>> of a Segment, in milliseconds
TimeCases == {<<0, 1000>>, <<20, 930>>, <<124, 1124>>}

\* "", " ", " a b c d", "a b c "
TextCases == {<<>>, <<" ">>,
              <<" ", "a", " ", "b", " ", "c", " ", "d">>,
              <<"a", " ", "b", " ", "c", " ">>}

TextABC == <<"a", " ", "b", " ", "c", " ">>

\* Segments whose words list is present and empty, has one Word, has two
SegEmptyWords == Segment(0, 1000, TextABC, TRUE, <<>>)

SegOneWord == Segment(125, 1000, TextABC, TRUE, <<Word(<<" ", "c">>, 125, 1000)>>)

SegTwoWords ==
    Segment(30, 1128, TextABC, TRUE,
            <<Word(<<" ", "a">>, 30, 150), Word(<<"b", " ">>, 124, 1128)>>)

SegNoWords == Segment(20, 930, TextABC, FALSE, <<>>)

SegmentSamples ==
    {Segment(tc[1], tc[2], tx, FALSE, <<>>) : tc \in TimeCases, tx \in TextCases}
    \cup {SegEmptyWords, SegOneWord, SegTwoWords}

\* The transcription results main() is run on
DriverResults == SeqsUpTo({SegNoWords, SegTwoWords}, MaxSegments)

OutputFiles == {"subtitles.txt", "subtitles.srt", "subtitles.json"}

MainIdle ==
    /\ pc = "idle" /\ videoExists = FALSE /\ audioExists = FALSE
    /\ outputs = [f \in OutputFiles |-> "absent"] /\ calls = {}
    /\ pending = "none" /\ messages = {} /\ exitStatus = -1
    /\ interrupted = FALSE /\ removeFailed = {} /\ raisedIn = {}
    /\ cleanupRan = FALSE

BuildIdle ==
    /\ result = <<>> /\ subtitles = <<>> /\ harakatLog = <<>>
    /\ delay = SUBTITLE_DELAY /\ maxWords = MAX_WORDS_PER_SUBTITLE
    /\ bpc = "idle" /\ bRaised = "none"

FmtIdle == fmtIn = 0 /\ fmtOut = <<>> /\ fmtDone = FALSE

-----------------------------------------------------------------------------
(* Specification of format_srt_time on its own *)

FmtInputs ==
    {1000 * (3600 * h + 60 * mi + sec) + ms :
        h \in 0..MaxHours, mi \in {0, 1, 59}, sec \in {0, 1, 59},
        ms \in {0, 1, 199, 200, 230, 234, 500, 999}}

InitFmt == MainIdle /\ BuildIdle /\ fmtIn \in FmtInputs /\ fmtOut = <<>> /\ fmtDone = FALSE

FormatSrtTime ==
    /\ ~fmtDone
    /\ fmtOut' = format_srt_time(fmtIn)
    /\ fmtDone' = TRUE
    /\ UNCHANGED <<fmtIn, mainVars, buildVars>>

NextFmt == FormatSrtTime

SpecFmt == InitFmt /\ [][NextFmt]_vars

-----------------------------------------------------------------------------
(* Specification of the three builders on their own *)

InitBuild ==
    /\ MainIdle /\ FmtIdle
    /\ result \in SeqsUpTo(SegmentSamples, MaxSegments)
    /\ delay \in {0, SUBTITLE_DELAY}
    /\ maxWords \in {1, MAX_WORDS_PER_SUBTITLE}
    /\ subtitles = <<>> /\ harakatLog = <<>> /\ bpc = "ready" /\ bRaised = "none"

\* A builder returns one of r.subs, or raises r.raised and returns nothing
Returns(r, name) ==
    /\ bRaised' = r.raised
    /\ IF r.raised = "none" THEN subtitles' \in r.subs ELSE subtitles' = <<>>
    /\ bpc' = name

WordLevel ==
    /\ bpc = "ready"
    /\ \E o \in EngineOutcomes :
         LET engines == [i \in 1..Len(AllWordLevelUnits(result)) |-> o]
         IN  /\ Returns(process_word_level_subtitles(result, delay, engines), "word")
             /\ harakatLog' = engines
    /\ UNCHANGED <<result, delay, maxWords, mainVars, fmtVars>>

PhraseLevel ==
    /\ bpc = "ready"
    /\ Returns(process_phrase_level_subtitles(result, delay, maxWords), "phrase")
    /\ UNCHANGED <<result, harakatLog, delay, maxWords, mainVars, fmtVars>>

FullSegment ==
    /\ bpc = "ready"
    /\ Returns(process_full_segment_subtitles(result, delay), "full")
    /\ UNCHANGED <<result, harakatLog, delay, maxWords, mainVars, fmtVars>>

NextBuild == WordLevel \/ PhraseLevel \/ FullSegment

SpecBuild == InitBuild /\ [][NextBuild]_vars

-----------------------------------------------------------------------------
(* Specification of a run of the program: main() under the __main__ guard *)

\* How a step of the try body can end: normally, with an Exception, or cut by
\* the user's interrupt.
StepOutcomes == {"ok", "Exception", "KeyboardInterrupt"}

Init ==
    /\ FmtIdle
    /\ pc = "start"
    /\ videoExists \in BOOLEAN
    /\ audioExists = FALSE
    /\ outputs \in {[f \in OutputFiles |-> "absent"], [f \in OutputFiles |-> "old"]}
    /\ calls = {} /\ pending = "none" /\ messages = {} /\ exitStatus = -1
    /\ interrupted = FALSE /\ removeFailed = {} /\ raisedIn = {}
    /\ cleanupRan = FALSE
    /\ result = <<>> /\ subtitles = <<>> /\ harakatLog = <<>>
    /\ delay = SUBTITLE_DELAY /\ maxWords = MAX_WORDS_PER_SUBTITLE
    /\ bpc = "ready" /\ bRaised = "none"

\* An exception leaves a step of the try body: an Exception goes to the
\* except clause, a KeyboardInterrupt passes it and unwinds through finally.
Raise(exc, phase) ==
    IF exc = "KeyboardInterrupt"
    THEN /\ pc' = "finally"
         /\ pending' = "KeyboardInterrupt"
         /\ interrupted' = TRUE
         /\ raisedIn' = raisedIn
    ELSE /\ pc' = "except"
         /\ pending' = "none"
         /\ interrupted' = interrupted
         /\ raisedIn' = raisedIn \cup {phase}

NoRaise == UNCHANGED <<pending, interrupted, raisedIn>>

\* A variant that reports the missing video and goes on (the return is lost)
LocateVideoNoReturn ==
    /\ pc = "start"
    /\ pc' = "extract"
    /\ messages' = IF ~videoExists THEN messages \cup {"not_found"} ELSE messages
    /\ UNCHANGED <<videoExists, audioExists, outputs, calls, pending, exitStatus,
                   interrupted, removeFailed, raisedIn, cleanupRan, buildVars, fmtVars>>

\* if not os.path.exists(VIDEO_PATH): report and return
LocateVideo ==
    /\ pc = "start"
    /\ IF ~videoExists
       THEN pc' = "returned" /\ messages' = messages \cup {"not_found"}
       ELSE pc' = "extract" /\ messages' = messages
    /\ UNCHANGED <<videoExists, audioExists, outputs, calls, pending, exitStatus,
                   interrupted, removeFailed, raisedIn, cleanupRan, buildVars, fmtVars>>

\* audio_file = extract_audio_from_video(VIDEO_PATH)
ExtractAudio ==
    /\ pc = "extract"
    /\ calls' = calls \cup {"extract_audio_from_video"}
    /\ \E o \in StepOutcomes :
         IF o = "ok"
         THEN audioExists' = TRUE /\ pc' = "transcribe" /\ NoRaise
         ELSE audioExists' \in BOOLEAN /\ Raise(o, "extract")
    /\ UNCHANGED <<videoExists, outputs, messages, exitStatus, removeFailed,
                   cleanupRan, buildVars, fmtVars>>

\* result = transcribe_with_whisper(audio_file, LANGUAGE, TASK)
Transcribe ==
    /\ pc = "transcribe"
    /\ calls' = calls \cup {"transcribe_with_whisper"}
    /\ \E o \in StepOutcomes :
         IF o = "ok"
         THEN result' \in DriverResults /\ pc' = "build" /\ NoRaise
         ELSE result' = result /\ Raise(o, "transcribe")
    /\ UNCHANGED <<videoExists, audioExists, outputs, messages, exitStatus,
                   removeFailed, cleanupRan, subtitles, harakatLog, delay,
                   maxWords, bpc, bRaised, fmtVars>>

\* subtitles = process_word_level_subtitles(result, SUBTITLE_DELAY) (WORD_LEVEL)
\* or process_full_segment_subtitles(result, SUBTITLE_DELAY), then the preview
BuildSubtitles ==
    /\ pc = "build"
    /\ calls' = calls \cup {IF WORD_LEVEL THEN "process_word_level_subtitles"
                            ELSE "process_full_segment_subtitles"}
    /\ \E engines \in [1..Len(AllWordLevelUnits(result)) -> EngineOutcomes] :
         LET r == IF WORD_LEVEL
                  THEN process_word_level_subtitles(result, SUBTITLE_DELAY, engines)
                  ELSE process_full_segment_subtitles(result, SUBTITLE_DELAY)
             cut == \E i \in 1..Len(engines) : engines[i] = "KeyboardInterrupt"
         IN  /\ harakatLog' = engines
             /\ IF r.raised = "none"
                THEN /\ subtitles' \in r.subs
                     /\ pc' = "emit_txt"
                     /\ interrupted' = (interrupted \/ cut)
                     /\ UNCHANGED <<pending, raisedIn>>
                ELSE /\ subtitles' = subtitles
                     /\ Raise(r.raised, "build")
    /\ UNCHANGED <<videoExists, audioExists, outputs, messages, exitStatus,
                   removeFailed, cleanupRan, result, delay, maxWords, bpc,
                   bRaised, fmtVars>>

\* save_<fmt>_format(subtitles, filename): open(filename, 'w') and write.  A
\* failure leaves the file untouched (open failed) or partly written.
Emit(here, file, fn, next) ==
    /\ pc = here
    /\ calls' = calls \cup {fn}
    /\ \E o \in StepOutcomes :
         IF o = "ok"
         THEN /\ outputs' = [outputs EXCEPT ![file] = "written"]
              /\ pc' = next
              /\ NoRaise
         ELSE /\ outputs' \in {outputs, [outputs EXCEPT ![file] = "partial"]}
              /\ Raise(o, here)
    /\ UNCHANGED <<videoExists, audioExists, messages, exitStatus, removeFailed,
                   cleanupRan, buildVars, fmtVars>>

EmitTxt == Emit("emit_txt", "subtitles.txt", "save_txt_format", "emit_srt")

EmitSrt == Emit("emit_srt", "subtitles.srt", "save_srt_format", "emit_json")

EmitJson == Emit("emit_json", "subtitles.json", "save_json_format", "cleanup")

\* # Cleanup: if os.path.exists(audio_file): os.remove(audio_file), in the try body
Cleanup ==
    /\ pc = "cleanup"
    /\ IF audioExists
       THEN \E o \in StepOutcomes :
              IF o = "ok"
              THEN /\ audioExists' = FALSE /\ pc' = "success" /\ NoRaise
                   /\ removeFailed' = removeFailed
              ELSE /\ audioExists' = TRUE
                   /\ removeFailed' = removeFailed \cup {"cleanup"}
                   /\ Raise(o, "cleanup")
       ELSE /\ pc' = "success" /\ NoRaise
            /\ UNCHANGED <<audioExists, removeFailed>>
    /\ UNCHANGED <<videoExists, outputs, calls, messages, exitStatus, cleanupRan,
                   buildVars, fmtVars>>

\* the success message and the summary
Success ==
    /\ pc = "success"
    /\ messages' = messages \cup {"success"}
    /\ pc' = "finally"
    /\ UNCHANGED <<videoExists, audioExists, outputs, calls, pending, exitStatus,
                   interrupted, removeFailed, raisedIn, cleanupRan, buildVars, fmtVars>>

\* A variant whose handler returns from main() with the cleanup not in a
\* finally block
ExceptReturns ==
    /\ pc = "except"
    /\ messages' = messages \cup {"error"}
    /\ pc' = "returned"
    /\ UNCHANGED <<videoExists, audioExists, outputs, calls, pending, exitStatus,
                   interrupted, removeFailed, raisedIn, cleanupRan, buildVars, fmtVars>>

\* except Exception as e: print the error and the traceback
Except ==
    /\ pc = "except"
    /\ messages' = messages \cup {"error"}
    /\ pc' = "finally"
    /\ UNCHANGED <<videoExists, audioExists, outputs, calls, pending, exitStatus,
                   interrupted, removeFailed, raisedIn, cleanupRan, buildVars, fmtVars>>

\* finally: if os.path.exists("temp_audio.wav"): try os.remove except: pass;
\* then main() returns, or the pending KeyboardInterrupt goes on to the guard
Finally ==
    /\ pc = "finally"
    /\ cleanupRan' = TRUE
    /\ IF audioExists
       THEN \E o \in StepOutcomes :
              IF o = "ok"
              THEN /\ audioExists' = FALSE
                   /\ UNCHANGED <<removeFailed, interrupted>>
              ELSE /\ audioExists' = TRUE
                   /\ removeFailed' = removeFailed \cup {"finally"}
                   /\ interrupted' = (interrupted \/ o = "KeyboardInterrupt")
       ELSE UNCHANGED <<audioExists, removeFailed, interrupted>>
    /\ pc' = IF pending = "KeyboardInterrupt" THEN "guard_except" ELSE "returned"
    /\ UNCHANGED <<videoExists, outputs, calls, pending, messages, exitStatus,
                   raisedIn, buildVars, fmtVars>>

\* if __name__ == "__main__": try: main() except KeyboardInterrupt: print, sys.exit(0)
MainGuard ==
    /\ pc \in {"returned", "guard_except"}
    /\ messages' = IF pc = "guard_except" THEN messages \cup {"interrupted"}
                   ELSE messages
    /\ exitStatus' = 0
    /\ pc' = "exited"
    /\ UNCHANGED <<videoExists, audioExists, outputs, calls, pending, interrupted,
                   removeFailed, raisedIn, cleanupRan, buildVars, fmtVars>>

Next ==
    \/ LocateVideo \/ ExtractAudio \/ Transcribe \/ BuildSubtitles
    \/ EmitTxt \/ EmitSrt \/ EmitJson
    \/ Cleanup \/ Success \/ Except \/ Finally \/ MainGuard

Spec == Init /\ [][Next]_vars

-----------------------------------------------------------------------------
(* Properties of a run (Spec) *)

MainLeft == pc \in {"returned", "guard_except", "exited"}

\* C1: once the video was found, every way out of main() passes the finally
\* block; an Exception raised in the try body was caught and reported; and
\* unless the final removal itself failed, temp_audio.wav is gone.
C1_CleanupOnEveryPath ==
    (videoExists /\ MainLeft) =>
        /\ cleanupRan
        /\ (raisedIn # {} => "error" \in messages)
        /\ ("finally" \notin removeFailed => ~audioExists)

C1_Witness ==
    /\ pc = "returned" /\ videoExists /\ "transcribe" \in raisedIn
    /\ "error" \in messages /\ cleanupRan /\ ~audioExists /\ removeFailed = {}

\* C2: with the video missing the run reports not-found and ends: nothing is
\* invoked, no audio file appears, no output file is written or modified.
C2_MissingVideoNoSideEffect ==
    ~videoExists =>
        /\ pc \in {"start", "returned", "exited"}
        /\ (pc # "start" => "not_found" \in messages)
        /\ calls = {}
        /\ ~audioExists
        /\ \A f \in OutputFiles : outputs[f] \in {"absent", "old"}
        /\ cleanupRan = FALSE

C2_Witness ==
    /\ ~videoExists /\ pc = "exited" /\ "not_found" \in messages
    /\ outputs["subtitles.srt"] = "old" /\ calls = {}

\* C3: after a KeyboardInterrupt was delivered no further phase of the
\* pipeline runs (the run is unwinding or has exited), and the process exits
\* with the 'interrupted by user' message and status 0.
C3_InterruptStopsRun ==
    interrupted =>
        /\ pc \in {"finally", "guard_except", "exited"}
        /\ (pc = "exited" => "interrupted" \in messages /\ exitStatus = 0)

\* C7: where the diacritization engine failed with an exception, the adapter
\* returned the original text and raised nothing: the word-level builder
\* returned a Subtitle with the unmarked text and the build phase did not fail.
C7_HarakatFailureAbsorbed ==
    \A i \in 1..Len(harakatLog) :
        harakatLog[i] = "Exception" =>
            /\ "build" \notin raisedIn
            /\ Len(subtitles) = Len(harakatLog)
            /\ subtitles[i].text = Strip(AllWordLevelUnits(result)[i].text)

C7_Witness ==
    /\ pc = "exited" /\ "success" \in messages /\ "error" \notin messages
    /\ \A f \in OutputFiles : outputs[f] = "written"
    /\ \E i \in 1..Len(harakatLog) :
         /\ harakatLog[i] = "Exception"
         /\ subtitles[i].text = <<"a">>
    /\ \E i \in 1..Len(harakatLog) :
         /\ harakatLog[i] = "ok"
         /\ subtitles[i].text = <<"b", "'">>

\* C9: a failed removal of the audio file never surfaces: a run whose three
\* output files were all written is not reported as failed because of it.
C9_RemovalFailureNeverSurfaces ==
    (removeFailed # {} /\ \A f \in OutputFiles : outputs[f] = "written")
        => "error" \notin messages

-----------------------------------------------------------------------------
(* Properties of the builders (SpecBuild) *)

RECURSIVE ExpectedWordLevelCount(_)
\* one per Word where the Segment has a non-empty words list, else one
ExpectedWordLevelCount(res) ==
    IF res = <<>> THEN 0
    ELSE (IF Head(res).hasWords /\ Len(Head(res).words) > 0
          THEN Len(Head(res).words) ELSE 1)
         + ExpectedWordLevelCount(Tail(res))

RECURSIVE TotalWords(_)
TotalWords(res) ==
    IF res = <<>> THEN 0 ELSE Len(Head(res).words) + TotalWords(Tail(res))

\* C4: the word-level builder returns one Subtitle per Word of every Segment
\* with a non-empty words list and one per other Segment; so the total word
\* count when all have words, the segment count when none has.
C4_WordLevelCount ==
    bpc = "word" =>
        /\ bRaised = "none"
        /\ Len(subtitles) = ExpectedWordLevelCount(result)
        /\ (\A i \in 1..Len(result) : result[i].hasWords /\ result[i].words # <<>>)
              => Len(subtitles) = TotalWords(result)
        /\ (\A i \in 1..Len(result) : ~result[i].hasWords \/ result[i].words = <<>>)
              => Len(subtitles) = Len(result)

C4_Witness ==
    /\ bpc = "word" /\ Len(result) = 2
    /\ result[1] = SegTwoWords /\ result[2] = SegEmptyWords
    /\ Len(subtitles) = 3

\* The source spans, as fractions sNum/den .. eNum/den milliseconds
WordSpans(res) ==
    LET u == AllWordLevelUnits(res)
    IN  [i \in 1..Len(u) |-> [sNum |-> u[i].start, eNum |-> u[i].end, den |-> 1]]

SegmentSpans(res) ==
    [i \in 1..Len(res) |-> [sNum |-> res[i].start, eNum |-> res[i].end, den |-> 1]]

GroupCount(segment, max_words) ==
    Len(split_text_into_phrases(segment.text, max_words))

RECURSIVE PhraseSpans(_, _)
PhraseSpans(res, max_words) ==
    IF res = <<>> THEN <<>>
    ELSE LET seg == Head(res)
             k   == GroupCount(seg, max_words)
         IN  [j \in 1..k |->
                [sNum |-> seg.start * k + (j - 1) * (seg.end - seg.start),
                 eNum |-> seg.start * k + j * (seg.end - seg.start),
                 den  |-> k]]
             \o PhraseSpans(Tail(res), max_words)

SpanOK(sub, span, dly) ==
    /\ sub.start \in RoundChoices(span.sNum + dly * span.den, span.den)
    /\ sub.end \in RoundChoices(span.eNum + dly * span.den, span.den)
    /\ sub.duration \in RoundChoices(span.eNum - span.sNum, span.den)

SpansOK(subs, spans, dly) ==
    /\ Len(subs) = Len(spans)
    /\ \A i \in 1..Len(subs) : SpanOK(subs[i], spans[i], dly)

\* C5: under each builder every Subtitle has start and end equal to the source
\* span's start and end plus the offset, rounded to 2 decimals, and duration
\* equal to the un-offset end minus start rounded to 2 decimals, whatever the
\* offset.
C5_OffsetAndRounding ==
    bRaised = "none" =>
        /\ bpc = "word" => SpansOK(subtitles, WordSpans(result), delay)
        /\ bpc = "full" => SpansOK(subtitles, SegmentSpans(result), delay)
        /\ bpc = "phrase" => SpansOK(subtitles, PhraseSpans(result, maxWords), delay)

C5_Witness ==
    /\ bpc = "word" /\ delay = SUBTITLE_DELAY
    /\ \E i \in 1..Len(subtitles) :
         /\ subtitles[i].start = 132
         /\ subtitles[i].end = 233
         /\ subtitles[i].duration = 100

SegmentCovered(seg, mine, k, dly) ==
    /\ Len(mine) = k
    /\ mine[1].start \in RoundChoices(seg.start + dly, 1)
    /\ mine[k].end \in RoundChoices(seg.end + dly, 1)
    /\ \A j \in 1..k : mine[j].duration \in RoundChoices(seg.end - seg.start, k)
    /\ \A j \in 1..(k - 1) : mine[j + 1].start = mine[j].end

RECURSIVE PhrasesCover(_, _, _, _)
PhrasesCover(res, subs, dly, max_words) ==
    IF res = <<>> THEN subs = <<>>
    ELSE LET k == GroupCount(Head(res), max_words)
         IN  /\ Len(subs) >= k
             /\ k >= 1 => SegmentCovered(Head(res), SubSeq(subs, 1, k), k, dly)
             /\ PhrasesCover(Tail(res), SubSeq(subs, k + 1, Len(subs)), dly, max_words)

\* C6: for every Segment with k >= 1 groups the phrase builder returns k
\* Subtitles of duration D/k (to 2 decimals), the first starting at the
\* segment's start plus offset, each later one starting exactly where the
\* previous one ends, the last ending at the segment's end plus offset.
C6_PhrasesContiguous ==
    (bpc = "phrase" /\ bRaised = "none")
        => PhrasesCover(result, subtitles, delay, maxWords)

\* C10: the phrase builder does not raise a division by zero for a Segment
\* whose text has no word.
C10_NoDivisionByZero == bpc = "phrase" => bRaised # "ZeroDivisionError"

-----------------------------------------------------------------------------
(* Property of format_srt_time (SpecFmt) *)

\* HH:MM:SS,mmm of the decimal value t/1000 seconds
ExpectedSrtTime(t) ==
    LET whole == t \div 1000
    IN  ZeroPad(Decimal(whole \div 3600), 2) \o <<":">>
        \o ZeroPad(Decimal((whole % 3600) \div 60), 2) \o <<":">>
        \o ZeroPad(Decimal(whole % 60), 2) \o <<",">>
        \o ZeroPad(Decimal(t % 1000), 3)

\* C8: format_srt_time returns HH:MM:SS,mmm with the whole hours, minutes,
\* seconds and the millisecond part of the value, zero-padded to 2, 2, 2 and 3
\* digits; 3661.234 gives 01:01:01,234.
C8_SrtTimeFormat == fmtDone => fmtOut = ExpectedSrtTime(fmtIn)

====
